---- MODULE Spec2Model ----
(***************************************************************************)
(* Model of train_subject_models.py: the entry point (__main__) that draws *)
(* one parameter per network, trains the networks in an interleaved loop   *)
(* (train_subject_nets), evaluates them (evaluate_subject_nets) and writes *)
(* one parameter file and one metadata file per network.                   *)
(*                                                                         *)
(* Abstractions.  A tensor sub-batch of SUBJECT_BATCH_SIZE samples is      *)
(* represented by one representative input; a label fn(x) is kept as the   *)
(* unevaluated application <<name, c, x>>; the value of a network's        *)
(* parameters is its initial draw together with the sequence of sub-       *)
(* batches it has been stepped on; the value returned by SUBJECT_CRITERION *)
(* (a float) is any element of LossValues.  The two random sources         *)
(* (Python's random module and torch's default generator) are linear       *)
(* congruential generators; uuid.uuid4() returns an identifier that has    *)
(* not been returned before.                                               *)
(***************************************************************************)
EXTENDS Integers, Sequences, FiniteSets, TLC

\* Largest --count explored.
MaxCount == 3
\* Largest --epochs explored.
MaxEpochs == 2
\* Number of sub-batches get_subject_data generates by default (2**10 in the
\* source, scaled down).
BatchCount == 2

FUNCTION_NAMES == <<"addition", "multiplication", "sigmoid", "exponent", "min">>
\* Values of --fn_name explored: the five registered names and one other.
FnNameArgs == {FUNCTION_NAMES[i] : i \in 1..Len(FUNCTION_NAMES)} \cup {"division"}
\* Values of --seed explored.
Seeds == {0, 1}
\* States torch's default generator may be in when the process starts.
TorchStates == {0, 1}
\* States Python's random module may be in before random.seed is called.
PyStates == {2, 5}
\* Values a loss may take (0: small, 1: large).
LossValues == {0, 1}
\* Identifiers uuid.uuid4() may return.
Ids == 1..MaxCount

VARIABLES
    args,           \* parsed command line
    pc,             \* position of the main script
    error,          \* the exception that ended the run and where it was raised
    py_rng,         \* state of Python's random module
    torch_rng,      \* state of torch's default generator
    nets,           \* the subject networks
    parameters,     \* the drawn function parameters
    fns,            \* the function mappings
    optimizers,     \* train_subject_nets: one optimizer per network
    training_data,  \* train_subject_nets: one dataset per network
    epoch,          \* train_subject_nets: outer loop variable
    batch_idx,      \* train_subject_nets: middle loop variable
    zip_pos,        \* train_subject_nets: position of the inner zip
    loss,           \* train_subject_nets: the last training loss
    losses,         \* evaluate_subject_nets: the list being built
    labels,         \* evaluate_subject_nets: the local `labels`, <<>> if unbound
    metadata,       \* the metadata records
    save_i,         \* position of the save loop
    net_id,         \* identifier of the network being saved
    used_ids,       \* identifiers uuid4 has returned
    files,          \* files this invocation has written under args.path
    step_log,       \* history: <<network, epoch, batch_idx>> of every optimizer step
    iterations,     \* history: number of outer iterations entered
    eval_log,       \* history: the evaluation batch drawn for each network
    run_no,         \* history: 1 for the first invocation, 2 for a repeat
    prev            \* history: what the first invocation drew, <<>> if none

vars == <<args, pc, error, py_rng, torch_rng, nets, parameters, fns,
          optimizers, training_data, epoch, batch_idx, zip_pos, loss, losses,
          labels, metadata, save_i, net_id, used_ids, files, step_log,
          iterations, eval_log, run_no, prev>>

main_vars == <<nets, parameters, fns, losses, labels, metadata, save_i,
               net_id, used_ids, files, eval_log>>
train_vars == <<optimizers, training_data, epoch, batch_idx, zip_pos, loss,
                step_log, iterations>>
hist_vars == <<run_no, prev>>

(***************************************************************************)
(* Random sources                                                          *)
(***************************************************************************)
\* random.seed(a): the generator state is a function of a alone.
PySeed(a) == (3 * a + 1) % 8
\* One advance of Python's generator; random.random() returns the new state
\* s, standing for the float s/8 in [0, 1).
PyNext(s) == (5 * s + 3) % 8
\* One advance of torch's generator; torch.rand returns the new state.
TorchNext(s) == (5 * s + 3) % 8

RECURSIVE PyDraws(_, _)
\* The values of n successive random.random() calls from state s.
PyDraws(s, n) == IF n = 0 THEN <<>> ELSE <<PyNext(s)>> \o PyDraws(PyNext(s), n - 1)

RECURSIVE PyAdvance(_, _)
PyAdvance(s, n) == IF n = 0 THEN s ELSE PyAdvance(PyNext(s), n - 1)

RECURSIVE TorchDraws(_, _)
\* The values of n successive torch draws from state s.
TorchDraws(s, n) == IF n = 0 THEN <<>> ELSE <<TorchNext(s)>> \o TorchDraws(TorchNext(s), n - 1)

RECURSIVE TorchAdvance(_, _)
TorchAdvance(s, n) == IF n = 0 THEN s ELSE TorchAdvance(TorchNext(s), n - 1)

(***************************************************************************)
(* Pure functions of the script                                            *)
(***************************************************************************)
\* get_subject_fn: the closure over the parameter, or the raised exception.
get_subject_fn(fn_name, param) ==
    IF \E i \in 1..Len(FUNCTION_NAMES) : fn_name = FUNCTION_NAMES[i]
    THEN [raised |-> "none", name |-> fn_name, c |-> param]
    ELSE [raised |-> "ValueError", name |-> fn_name, c |-> param]

\* fn(x), unevaluated.
ApplyFn(fn, x) == <<fn.name, fn.c, x>>

\* get_subject_data(fn, batch_count) with torch's generator in state s:
\* batch_count sub-batches, each pairing inputs rand*10 with labels fn(x).
get_subject_data(fn, batch_count, s) ==
    LET d == TorchDraws(s, batch_count)
    IN [b \in 1..batch_count |->
           [inputs |-> 10 * d[b], labels |-> ApplyFn(fn, 10 * d[b])]]

\* get_subject_net() with torch's generator in state s: the initial weights
\* are drawn from torch's generator; a new module is in training mode.
get_subject_net(s) == [init |-> TorchNext(s), updates |-> <<>>, training |-> TRUE]

\* net.state_dict(): the parameters, without the mode flag.
state_dict(net) == [init |-> net.init, updates |-> net.updates]

get_model_path(path, id) == <<path, id, ".pickle">>
\* Variant: the metadata is written to the path of the parameter file.
get_metadata_path_as_model_path(path, id) == <<path, id, ".pickle">>
get_metadata_path(path, id) == <<path, id, "_metadata.json">>

(***************************************************************************)
(* Initial state                                                           *)
(***************************************************************************)
ArgSets == [path : {"out"}, count : 0..MaxCount, seed : Seeds,
            fn_name : FnNameArgs, epochs : 0..MaxEpochs, weight_decay : {0}]

\* No exception has been raised.
NoError == [name |-> "none", at |-> "none"]

Fresh ==
    /\ pc = "parse"
    /\ error = NoError
    /\ nets = <<>>
    /\ parameters = <<>>
    /\ fns = <<>>
    /\ optimizers = <<>>
    /\ training_data = <<>>
    /\ epoch = 0
    /\ batch_idx = 0
    /\ zip_pos = 0
    /\ loss = 0
    /\ losses = <<>>
    /\ labels = <<>>
    /\ metadata = <<>>
    /\ save_i = 0
    /\ net_id = 0
    /\ used_ids = {}
    /\ files = {}
    /\ step_log = <<>>
    /\ iterations = 0
    /\ eval_log = <<>>

Init ==
    /\ args \in ArgSets
    /\ py_rng \in PyStates
    /\ torch_rng \in TorchStates
    /\ run_no = 1
    /\ prev = <<>>
    /\ Fresh

(***************************************************************************)
(* __main__, lines 188-196                                                 *)
(***************************************************************************)
Min(a, b) == IF a < b THEN a ELSE b

Raise(name) ==
    /\ error' = [name |-> name, at |-> pc]
    /\ pc' = "error"

\* args = parser.parse_args(); random.seed(a=args.seed)
ParseArgs ==
    /\ pc = "parse"
    /\ py_rng' = PySeed(args.seed)
    /\ pc' = "init_nets"
    /\ UNCHANGED <<args, error, torch_rng, main_vars, train_vars, hist_vars>>

\* nets = [get_subject_net() for _ in range(args.count)]
InitNets ==
    /\ pc = "init_nets"
    /\ nets' = [i \in 1..args.count |-> get_subject_net(TorchAdvance(torch_rng, i - 1))]
    /\ torch_rng' = TorchAdvance(torch_rng, args.count)
    /\ pc' = "draw_parameters"
    /\ UNCHANGED <<args, error, py_rng, parameters, fns, losses, labels,
                   metadata, save_i, net_id, used_ids, files, eval_log,
                   train_vars, hist_vars>>

\* parameters = [random.random() for _ in range(args.count)]
DrawParameters ==
    /\ pc = "draw_parameters"
    /\ parameters' = PyDraws(py_rng, args.count)
    /\ py_rng' = PyAdvance(py_rng, args.count)
    /\ pc' = "build_fns"
    /\ UNCHANGED <<args, error, torch_rng, nets, fns, losses, labels, metadata,
                   save_i, net_id, used_ids, files, eval_log, train_vars,
                   hist_vars>>

\* fns = [get_subject_fn(args.fn_name, parameter) for parameter in parameters]
BuildFns ==
    /\ pc = "build_fns"
    /\ LET r == [i \in 1..Len(parameters) |-> get_subject_fn(args.fn_name, parameters[i])]
       IN IF \E i \in 1..Len(r) : r[i].raised # "none"
          THEN Raise("ValueError") /\ fns' = fns
          ELSE fns' = r /\ pc' = "train_setup" /\ error' = error
    /\ UNCHANGED <<args, py_rng, torch_rng, nets, parameters, losses, labels,
                   metadata, save_i, net_id, used_ids, files, eval_log,
                   train_vars, hist_vars>>

(***************************************************************************)
(* train_subject_nets, lines 71-99                                         *)
(***************************************************************************)
\* Lines 86-88: the optimizers, the datasets and the DataParallel wrappers
\* (which share the parameters of the modules they wrap).
TrainSetup ==
    /\ pc = "train_setup"
    /\ optimizers' = [i \in 1..Len(nets) |->
                         [t |-> 0, weight_decay |-> args.weight_decay]]
    /\ training_data' = [i \in 1..Len(fns) |->
            get_subject_data(fns[i], BatchCount,
                             TorchAdvance(torch_rng, (i - 1) * BatchCount))]
    /\ torch_rng' = TorchAdvance(torch_rng, Len(fns) * BatchCount)
    /\ epoch' = 0
    /\ pc' = "epoch_loop"
    /\ UNCHANGED <<args, error, py_rng, main_vars, batch_idx, zip_pos, loss,
                   step_log, iterations, hist_vars>>

\* Device memory is exhausted while the datasets are generated (there is at
\* least one dataset to generate).
TrainSetupFails ==
    /\ pc = "train_setup"
    /\ Len(fns) > 0
    /\ Raise("OutOfMemoryError")
    /\ UNCHANGED <<args, py_rng, torch_rng, main_vars, train_vars, hist_vars>>

\* for epoch in range(epochs): the next iteration is entered.
EpochBegin ==
    /\ pc = "epoch_loop"
    /\ epoch < args.epochs
    /\ iterations' = iterations + 1
    /\ batch_idx' = 0
    /\ pc' = "batch_loop"
    /\ UNCHANGED <<args, error, py_rng, torch_rng, main_vars, optimizers,
                   training_data, epoch, zip_pos, loss, step_log, hist_vars>>

\* Variant: training also returns once a step has produced a small loss.
TrainReturn_on_small_loss ==
    /\ pc = "epoch_loop"
    /\ epoch >= args.epochs \/ (step_log # <<>> /\ loss = 0)
    /\ pc' = "evaluate"
    /\ UNCHANGED <<args, error, py_rng, torch_rng, main_vars, train_vars,
                   hist_vars>>

\* range(epochs) is exhausted: train_subject_nets returns.
TrainReturn ==
    /\ pc = "epoch_loop"
    /\ epoch >= args.epochs
    /\ pc' = "evaluate"
    /\ UNCHANGED <<args, error, py_rng, torch_rng, main_vars, train_vars,
                   hist_vars>>

\* Variant: the inner loop starts at the second triple.
BatchBegin_skips_first ==
    /\ pc = "batch_loop"
    /\ batch_idx < Len(training_data)
    /\ zip_pos' = 2
    /\ pc' = "zip_loop"
    /\ UNCHANGED <<args, error, py_rng, torch_rng, main_vars, optimizers,
                   training_data, epoch, batch_idx, loss, step_log, iterations,
                   hist_vars>>

\* for batch_idx in range(len(training_data)): the next index is taken.
BatchBegin ==
    /\ pc = "batch_loop"
    /\ batch_idx < Len(training_data)
    /\ zip_pos' = 1
    /\ pc' = "zip_loop"
    /\ UNCHANGED <<args, error, py_rng, torch_rng, main_vars, optimizers,
                   training_data, epoch, batch_idx, loss, step_log, iterations,
                   hist_vars>>

\* range(len(training_data)) is exhausted: the outer iteration ends.
EpochEnd ==
    /\ pc = "batch_loop"
    /\ batch_idx >= Len(training_data)
    /\ epoch' = epoch + 1
    /\ pc' = "epoch_loop"
    /\ UNCHANGED <<args, error, py_rng, torch_rng, main_vars, optimizers,
                   training_data, batch_idx, zip_pos, loss, step_log,
                   iterations, hist_vars>>

ZipLen == Min(Len(nets), Min(Len(training_data), Len(optimizers)))

\* Variant: one optimizer over the parameters of all networks, so that a step
\* advances the optimizer state of every network.
StepEffect_shared_optimizer(k, l) ==
    /\ loss' = l
    /\ nets' = [nets EXCEPT ![k].updates = Append(@, training_data[k][batch_idx + 1])]
    /\ optimizers' = [i \in 1..Len(optimizers) |->
                         [optimizers[i] EXCEPT !.t = @ + 1]]
    /\ step_log' = Append(step_log, <<k, epoch, batch_idx>>)

\* Lines 94-99 for the triple at zip_pos: the loss is computed on sub-batch
\* batch_idx of this network's dataset and the optimizer is stepped.
StepEffect(k, l) ==
    /\ loss' = l
    /\ nets' = [nets EXCEPT ![k].updates = Append(@, training_data[k][batch_idx + 1])]
    /\ optimizers' = [optimizers EXCEPT ![k].t = @ + 1]
    /\ step_log' = Append(step_log, <<k, epoch, batch_idx>>)

OptimizerStep ==
    /\ pc = "zip_loop"
    /\ zip_pos <= ZipLen
    /\ batch_idx < Len(training_data[zip_pos])
    /\ \E l \in LossValues : StepEffect(zip_pos, l)
    /\ zip_pos' = zip_pos + 1
    /\ UNCHANGED <<args, pc, error, py_rng, torch_rng, parameters, fns, losses,
                   labels, metadata, save_i, net_id, used_ids, files, eval_log,
                   training_data, epoch, batch_idx, iterations, hist_vars>>

\* data[batch_idx] with batch_idx beyond the dataset's first dimension.
StepIndexError ==
    /\ pc = "zip_loop"
    /\ zip_pos <= ZipLen
    /\ batch_idx >= Len(training_data[zip_pos])
    /\ Raise("IndexError")
    /\ UNCHANGED <<args, py_rng, torch_rng, main_vars, train_vars, hist_vars>>

\* Variant: the failure handler saves the network being stepped before the
\* exception propagates.
StepFails_checkpoints ==
    /\ pc = "zip_loop"
    /\ zip_pos <= ZipLen
    /\ batch_idx < Len(training_data[zip_pos])
    /\ Raise("OutOfMemoryError")
    /\ \E id \in Ids \ used_ids :
          /\ net_id' = id
          /\ used_ids' = used_ids \cup {id}
          /\ files' = files \cup {[path |-> get_model_path(args.path, id),
                                   complete |-> TRUE,
                                   content |-> <<state_dict(nets[zip_pos])>>]}
    /\ UNCHANGED <<args, py_rng, torch_rng, nets, parameters, fns, losses,
                   labels, metadata, save_i, eval_log, train_vars, hist_vars>>

\* Device memory is exhausted in the forward or backward pass.
StepFails ==
    /\ pc = "zip_loop"
    /\ zip_pos <= ZipLen
    /\ batch_idx < Len(training_data[zip_pos])
    /\ Raise("OutOfMemoryError")
    /\ UNCHANGED <<args, py_rng, torch_rng, main_vars, train_vars, hist_vars>>

\* The zip is exhausted: the next batch_idx.
BatchEnd ==
    /\ pc = "zip_loop"
    /\ zip_pos > ZipLen
    /\ batch_idx' = batch_idx + 1
    /\ pc' = "batch_loop"
    /\ UNCHANGED <<args, error, py_rng, torch_rng, main_vars, optimizers,
                   training_data, epoch, zip_pos, loss, step_log, iterations,
                   hist_vars>>

(***************************************************************************)
(* evaluate_subject_nets, lines 102-125                                    *)
(***************************************************************************)
\* Lines 107-116 for the next (net, fn) pair: a fresh batch of one sub-batch,
\* the network switched to inference mode, its loss appended.
EvalNet ==
    /\ pc = "evaluate"
    /\ Len(losses) < Min(Len(nets), Len(fns))
    /\ LET i == Len(losses) + 1
           eval_data == get_subject_data(fns[i], 1, torch_rng)[1]
       IN /\ torch_rng' = TorchAdvance(torch_rng, 1)
          /\ nets' = [nets EXCEPT ![i].training = FALSE]
          /\ labels' = <<eval_data.labels>>
          /\ eval_log' = Append(eval_log, [net |-> i, fn |-> fns[i], batch |-> eval_data])
          /\ \E l \in LossValues : losses' = Append(losses, l)
    /\ UNCHANGED <<args, pc, error, py_rng, parameters, fns, metadata, save_i,
                   net_id, used_ids, files, train_vars, hist_vars>>

\* Lines 118-125: the sample predictions of the last network are printed from
\* the loop's locals `labels` and `outputs`, then the losses are returned.
EvalReport ==
    /\ pc = "evaluate"
    /\ Len(losses) >= Min(Len(nets), Len(fns))
    /\ IF labels = <<>>
       THEN Raise("UnboundLocalError")
       ELSE pc' = "build_metadata" /\ error' = error
    /\ UNCHANGED <<args, py_rng, torch_rng, main_vars, train_vars, hist_vars>>

(***************************************************************************)
(* __main__, lines 199-213                                                 *)
(***************************************************************************)
\* metadata = [{...} for parameter, loss in zip(parameters, losses)]
BuildMetadata ==
    /\ pc = "build_metadata"
    /\ metadata' = [i \in 1..Min(Len(parameters), Len(losses)) |->
           [fn_name |-> args.fn_name, parameter |-> parameters[i],
            loss |-> losses[i], seed |-> args.seed,
            weight_decay |-> args.weight_decay, epochs |-> args.epochs]]
    /\ save_i' = 1
    /\ pc' = "save_model"
    /\ UNCHANGED <<args, error, py_rng, torch_rng, nets, parameters, fns,
                   losses, labels, net_id, used_ids, files, eval_log,
                   train_vars, hist_vars>>

SaveLen == Min(Len(nets), Len(metadata))

\* net_id = uuid.uuid4()
NewId(id) ==
    /\ id \in Ids \ used_ids
    /\ net_id' = id
    /\ used_ids' = used_ids \cup {id}

File(p, whole, data) == [path |-> p, complete |-> whole, content |-> data]

\* A write in mode "w": the file at that path is created or replaced.
Write(fs, file) == {g \in fs : g.path # file.path} \cup {file}

\* Lines 208-211: a new identifier, then torch.save(net.state_dict(), model_path).
SaveModel ==
    /\ pc = "save_model"
    /\ save_i <= SaveLen
    /\ \E id \in Ids :
          /\ NewId(id)
          /\ files' = Write(files, File(get_model_path(args.path, id), TRUE,
                                          <<state_dict(nets[save_i])>>))
    /\ pc' = "save_metadata"
    /\ UNCHANGED <<args, error, py_rng, torch_rng, nets, parameters, fns,
                   losses, labels, metadata, save_i, eval_log, train_vars,
                   hist_vars>>

\* Variant: the failure of torch.save is swallowed and the metadata is still
\* written.
SaveModelFails_swallowed ==
    /\ pc = "save_model"
    /\ save_i <= SaveLen
    /\ \E id \in Ids :
          /\ NewId(id)
          /\ \/ files' = files
             \/ files' = Write(files, File(get_model_path(args.path, id), FALSE, <<>>))
    /\ pc' = "save_metadata"
    /\ UNCHANGED <<args, error, py_rng, torch_rng, nets, parameters, fns,
                   losses, labels, metadata, save_i, eval_log, train_vars,
                   hist_vars>>

\* torch.save raises: the file was not created, or was left truncated.
SaveModelFails ==
    /\ pc = "save_model"
    /\ save_i <= SaveLen
    /\ \E id \in Ids :
          /\ NewId(id)
          /\ \/ files' = files
             \/ files' = Write(files, File(get_model_path(args.path, id), FALSE, <<>>))
    /\ Raise("OSError")
    /\ UNCHANGED <<args, py_rng, torch_rng, nets, parameters, fns, losses,
                   labels, metadata, save_i, eval_log, train_vars, hist_vars>>

\* Lines 212-213: open(md_path, "w") and json.dump(md, json_file).
SaveMetadata ==
    /\ pc = "save_metadata"
    /\ files' = Write(files, File(get_metadata_path(args.path, net_id), TRUE,
                                    <<metadata[save_i]>>))
    /\ save_i' = save_i + 1
    /\ pc' = "save_model"
    /\ UNCHANGED <<args, error, py_rng, torch_rng, nets, parameters, fns,
                   losses, labels, metadata, net_id, used_ids, eval_log,
                   train_vars, hist_vars>>

\* open raises (no file), or json.dump raises (the file is left truncated).
SaveMetadataFails ==
    /\ pc = "save_metadata"
    /\ \/ files' = files
       \/ files' = Write(files, File(get_metadata_path(args.path, net_id), FALSE, <<>>))
    /\ Raise("OSError")
    /\ UNCHANGED <<args, py_rng, torch_rng, nets, parameters, fns, losses,
                   labels, metadata, save_i, net_id, used_ids, eval_log,
                   train_vars, hist_vars>>

\* The save loop is exhausted: the script ends.
Finish ==
    /\ pc = "save_model"
    /\ save_i > SaveLen
    /\ pc' = "done"
    /\ UNCHANGED <<args, error, py_rng, torch_rng, main_vars, train_vars,
                   hist_vars>>

(***************************************************************************)
(* Specifications                                                          *)
(***************************************************************************)
Next ==
    \/ ParseArgs
    \/ InitNets
    \/ DrawParameters
    \/ BuildFns
    \/ TrainSetup
    \/ TrainSetupFails
    \/ EpochBegin
    \/ TrainReturn
    \/ BatchBegin
    \/ EpochEnd
    \/ OptimizerStep
    \/ StepIndexError
    \/ StepFails
    \/ BatchEnd
    \/ EvalNet
    \/ EvalReport
    \/ BuildMetadata
    \/ SaveModel
    \/ SaveModelFails
    \/ SaveMetadata
    \/ SaveMetadataFails
    \/ Finish

\* One invocation of the script.
Spec == Init /\ [][Next]_vars

\* The same command line is run a second time, in a new process: both random
\* sources start in arbitrary states again.  What the first invocation drew
\* is kept in prev.
Rerun ==
    /\ run_no = 1
    /\ pc \in {"done", "error"}
    /\ prev' = <<[pc |-> pc, parameters |-> parameters,
                  training_data |-> training_data, eval_log |-> eval_log]>>
    /\ run_no' = 2
    /\ args' = args
    /\ py_rng' \in PyStates
    /\ torch_rng' \in TorchStates
    /\ pc' = "parse"
    /\ error' = NoError
    /\ nets' = <<>>
    /\ parameters' = <<>>
    /\ fns' = <<>>
    /\ optimizers' = <<>>
    /\ training_data' = <<>>
    /\ epoch' = 0
    /\ batch_idx' = 0
    /\ zip_pos' = 0
    /\ loss' = 0
    /\ losses' = <<>>
    /\ labels' = <<>>
    /\ metadata' = <<>>
    /\ save_i' = 0
    /\ net_id' = 0
    /\ used_ids' = {}
    /\ files' = {}
    /\ step_log' = <<>>
    /\ iterations' = 0
    /\ eval_log' = <<>>

NextTwoRuns == Next \/ Rerun

\* Two invocations of the script with the same command line.
SpecTwoRuns == Init /\ [][NextTwoRuns]_vars

(***************************************************************************)
(* Properties                                                              *)
(***************************************************************************)
ValidName == \E i \in 1..Len(FUNCTION_NAMES) : args.fn_name = FUNCTION_NAMES[i]

Ended == pc \in {"done", "error"}

\* train_subject_nets has returned normally.
TrainingReturned ==
    \/ pc \in {"evaluate", "build_metadata", "save_model", "save_metadata", "done"}
    \/ pc = "error" /\ error.at \in {"evaluate", "save_model", "save_metadata"}

\* train_subject_nets raised.
TrainingFailed ==
    pc = "error" /\ error.at \in {"train_setup", "zip_loop"}

\* The identifiers that have a file of the given suffix.
IdsWith(suffix) == {f.path[2] : f \in {g \in files : g.path[3] = suffix}}

\* Number of optimizer steps network i took on sub-batch index b.
Uses(i, b) ==
    Cardinality({p \in 1..Len(step_log) : step_log[p][1] = i /\ step_log[p][3] = b})

\* C1: a run whose --fn_name is not registered ends, for every --count, with
\* the ValueError of get_subject_fn, and takes no optimizer step and writes
\* no file.
C1_InvalidNameRaisesValueError ==
    ~ValidName =>
        /\ step_log = <<>>
        /\ files = {}
        /\ pc # "done"
        /\ pc = "error" => error.name = "ValueError"

\* C2: when a run with --count = N ends without error there are N networks,
\* N parameters, N mappings, N losses and N identifiers, each identifier with
\* a complete parameter file and a complete metadata file and nothing else
\* written; the files of network i hold its parameters and the i-th parameter
\* and loss together with the run's fn_name, seed, weight_decay and epochs.
C2_OneToOnePipeline ==
    pc = "done" =>
        LET N == args.count
        IN /\ Len(nets) = N /\ Len(parameters) = N /\ Len(fns) = N
           /\ Len(losses) = N /\ Len(metadata) = N
           /\ Cardinality(files) = 2 * N
           /\ Cardinality(IdsWith(".pickle")) = N
           /\ IdsWith(".pickle") = IdsWith("_metadata.json")
           /\ \E f \in [1..N -> Ids] :
                 /\ \A i, j \in 1..N : f[i] = f[j] => i = j
                 /\ \A i \in 1..N :
                       /\ File(<<args.path, f[i], ".pickle">>, TRUE,
                               <<state_dict(nets[i])>>) \in files
                       /\ File(<<args.path, f[i], "_metadata.json">>, TRUE,
                               <<[fn_name |-> args.fn_name,
                                  parameter |-> parameters[i],
                                  loss |-> losses[i], seed |-> args.seed,
                                  weight_decay |-> args.weight_decay,
                                  epochs |-> args.epochs]>>) \in files

\* A run of two trained networks has ended without error and left four files.
C2_Witness ==
    /\ pc = "done"
    /\ args.count = 2
    /\ args.epochs >= 1
    /\ Cardinality(files) = 4

\* C3: two runs with the same seed, fn_name and count draw the same parameters
\* and generate the same training and evaluation data.
C3_SeedDeterminesDrawsAndData ==
    (run_no = 2 /\ prev[1].pc = "done" /\ pc = "done") =>
        /\ parameters = prev[1].parameters
        /\ training_data = prev[1].training_data
        /\ eval_log = prev[1].eval_log

\* C4: evaluate_subject_nets returns normally for every N >= 0, with one loss
\* per network, the i-th computed for network i on a batch generated from the
\* i-th mapping.
C4_EvaluateReturnsLosses ==
    /\ ~(pc = "error" /\ error.at = "evaluate")
    /\ pc \in {"build_metadata", "save_model", "save_metadata", "done"} =>
          /\ Len(losses) = Len(nets)
          /\ Len(eval_log) = Len(nets)
          /\ \A i \in 1..Len(nets) :
                eval_log[i].net = i /\ eval_log[i].fn = fns[i]

\* C5 as stated: the two writes of an identifier fail independently, so that
\* a failed metadata write leaves the parameter file without a metadata file
\* and a failed parameter write leaves the metadata file without a parameter
\* file.
C5_BothPartialOutcomes ==
    /\ (pc = "error" /\ error.at = "save_metadata") =>
          /\ net_id \in IdsWith(".pickle")
          /\ File(get_metadata_path(args.path, net_id), TRUE,
                  <<metadata[save_i]>>) \notin files
    /\ (pc = "error" /\ error.at = "save_model") =>
          /\ net_id \in IdsWith("_metadata.json")
          /\ File(get_model_path(args.path, net_id), TRUE,
                  <<state_dict(nets[save_i])>>) \notin files

\* C5 amended: only one partial outcome exists.  A metadata file is never
\* present without the complete parameter file of the same identifier (a
\* failed parameter write ends the run before the metadata write); no file is
\* ever removed, and nothing is retried after a failure.
C5_MetadataOnlyAfterParameters ==
    /\ [](\A id \in IdsWith("_metadata.json") :
             \E f \in files : f.path = get_model_path(args.path, id) /\ f.complete)
    /\ [][files \subseteq files' /\ pc # "error"]_vars

\* The metadata write of an identifier failed, leaving its parameter file but
\* no metadata file.
C5_Witness ==
    /\ pc = "error"
    /\ error.at = "save_metadata"
    /\ net_id \in IdsWith(".pickle")
    /\ net_id \notin IdsWith("_metadata.json")

\* C6: no file is written before training and the evaluation of all N
\* networks have completed; in particular a run in which train_subject_nets
\* fails ends with no file written.
C6_NoSaveBeforeTrainingAndEvaluation ==
    /\ TrainingFailed => files = {} /\ used_ids = {}
    /\ files # {} =>
          /\ TrainingReturned
          /\ iterations = args.epochs
          /\ Len(losses) = args.count
          /\ pc \notin {"evaluate", "build_metadata"}
          /\ pc = "error" => error.at \in {"save_model", "save_metadata"}

\* Training failed on an optimizer step after earlier steps had succeeded.
C6_Witness ==
    /\ pc = "error"
    /\ error.at = "zip_loop"
    /\ error.name = "OutOfMemoryError"
    /\ Len(step_log) >= 2
    /\ files = {}

\* C7: when training returns, every network has taken epochs * 1024 optimizer
\* steps, epochs of them on each sub-batch index of its dataset.
C7_EverySubBatchEveryEpoch ==
    TrainingReturned =>
        \A i \in 1..Len(nets) :
            /\ optimizers[i].t = args.epochs * BatchCount
            /\ \A b \in 0..(BatchCount - 1) : Uses(i, b) = args.epochs

\* C8: network i is stepped on sub-batch index b of an epoch only after
\* networks 1..i-1 have been stepped on b in that epoch and after all networks
\* have been stepped on b-1; the step counts of two networks never differ by
\* more than one.
C8_LockStep ==
    /\ \A p \in 1..Len(step_log) :
          LET i == step_log[p][1]
              e == step_log[p][2]
              b == step_log[p][3]
          IN /\ \A j \in 1..(i - 1) :
                   \E q \in 1..(p - 1) : step_log[q] = <<j, e, b>>
             /\ b > 0 =>
                   \A j \in 1..Len(nets) :
                       \E q \in 1..(p - 1) : step_log[q] = <<j, e, b - 1>>
             /\ \A q \in 1..(p - 1) : step_log[q] # step_log[p]
    /\ \A i, j \in 1..Len(optimizers) :
          /\ optimizers[i].t - optimizers[j].t \in {-1, 0, 1}
          /\ i < j => optimizers[i].t >= optimizers[j].t

\* In the middle of a sub-batch index: the first network is one step ahead of
\* the last, after a whole earlier index.
C8_Witness ==
    /\ pc = "zip_loop"
    /\ Len(nets) >= 2
    /\ optimizers[1].t = 2
    /\ optimizers[Len(nets)].t = 1

\* C9: an optimizer step changes the parameters of the stepped network and
\* the state of its optimizer only; the datasets exist before the first step
\* and no step of the epoch loop changes them.
C9_StepFrame ==
    [][ /\ step_log' # step_log =>
              LET k == step_log'[Len(step_log')][1]
              IN /\ Len(training_data) = Len(nets)
                 /\ training_data' = training_data
                 /\ Len(nets') = Len(nets) /\ Len(optimizers') = Len(optimizers)
                 /\ \A j \in 1..Len(nets) :
                       j # k => nets'[j] = nets[j] /\ optimizers'[j] = optimizers[j]
                 /\ nets'[k] # nets[k] /\ optimizers'[k] # optimizers[k]
        /\ pc \in {"epoch_loop", "batch_loop", "zip_loop"} =>
              training_data' = training_data
      ]_vars

\* The first of several networks has been stepped and the next has not.
C9_Witness ==
    /\ pc = "zip_loop"
    /\ Len(nets) >= 2
    /\ Len(nets[1].updates) = 1
    /\ nets[2].updates = <<>>
    /\ optimizers[1].t = 1
    /\ optimizers[2].t = 0

\* C10: train_subject_nets never enters more than `epochs` outer iterations,
\* returns only after exactly `epochs` of them whatever the losses were, and
\* with epochs = 0 returns without an optimizer step.
C10_ExactlyEpochsIterations ==
    /\ iterations <= args.epochs
    /\ TrainingReturned =>
          /\ iterations = args.epochs
          /\ args.epochs = 0 => step_log = <<>>

\* Training has just returned after two outer iterations although the last
\* loss was small.
C10_Witness ==
    /\ pc = "evaluate"
    /\ args.epochs = 2
    /\ iterations = 2
    /\ step_log # <<>>
    /\ loss = 0

====
